---- MODULE Spec2Model ----
(***************************************************************************)
(* GpuRenderTargetSystem (WebGPU render-target management of pixi.js):     *)
(* the surface -> RenderTarget cache, the RenderTarget -> GpuRenderTarget  *)
(* cache, the render-target stack and the pass begun by every bind.        *)
(*                                                                         *)
(* Objects are pairs <<name, gen>>.  gen = 0 is an object handed to the    *)
(* system (a canvas, a texture, an explicit RenderTarget); <<t, n>> with   *)
(* n >= 1 is the n-th RenderTarget constructed around texture t.           *)
(***************************************************************************)
EXTENDS Integers, Sequences, FiniteSets, TLC

\* ------------------------------------------------------------------ bounds
MaxStack == 3
MaxInit == 2

\* ------------------------------------------------------- the object universe
Undefined == <<"undefined", 0>>
NoCanvas == "none"
NoTexture == "none"

\* HTMLCanvasElement objects
Canvases == {"cv1", "cv2"}

\* Texture objects
Textures == {"tA", "tB", "tC", "tD"}

\* explicit RenderTarget objects built by callers
ExplicitTargets == {"R1", "R2", "R3"}

\* texture.source.resource: the canvas behind a window-backed texture
resource(t) ==
    CASE t = "tC" -> "cv1"
      [] t = "tD" -> "cv2"
      [] OTHER -> NoCanvas

\* texture.source.antialias
antialias(t) == t \in {"tB", "tD"}

\* texture.source.depthStencil: the depth/stencil texture that goes with t
depthStencil(t) == IF t = "tB" THEN "dB" ELSE NoTexture

\* colorTextures and depthTexture an explicit RenderTarget was built with
explicitColorTextures(r) ==
    CASE r = "R1" -> <<"tA", "tB">>
      [] r = "R2" -> <<"tC", "tD">>
      [] OTHER -> <<"tA", "tC">>

explicitDepthTexture(r) == IF r = "R1" THEN "dR" ELSE NoTexture

IsRenderTarget(o) == o[2] >= 1 \/ (o[2] = 0 /\ o[1] \in ExplicitTargets)
IsTexture(o) == o[2] = 0 /\ o[1] \in Textures

\* renderTarget.colorTextures
colorTextures(rt) == IF rt[2] >= 1 THEN <<rt[1]>> ELSE explicitColorTextures(rt[1])

\* renderTarget.depthTexture
depthTexture(rt) == IF rt[2] >= 1 THEN depthStencil(rt[1]) ELSE explicitDepthTexture(rt[1])

\* renderTarget.colorTexture: the first color attachment
colorTexture(rt) == colorTextures(rt)[1]

\* What the application works with in a run: the surfaces it hands to start,
\* bind, push and getRenderTarget, the textures it resizes between calls, and
\* the canvases whose context throws when it is configured.
FrameApplication ==
    [surfaces |-> {<<"cv1", 0>>, <<"tA", 0>>, <<"R1", 0>>}, resizable |-> {},
     failing |-> {}]
ResizeApplications ==
    {[surfaces |-> {<<"tB", 0>>}, resizable |-> {"tB"}, failing |-> {}],
     [surfaces |-> {<<"R1", 0>>}, resizable |-> {"tA", "tB"}, failing |-> {}]}
BackendApplication ==
    [surfaces |-> {<<"R1", 0>>, <<"R2", 0>>, <<"R3", 0>>}, resizable |-> {},
     failing |-> {}]
ConfigureApplications ==
    {[surfaces |-> {<<"tD", 0>>, <<"R2", 0>>}, resizable |-> {}, failing |-> f] :
        f \in SUBSET Canvases}

DEFAULT_CLEAR_COLOR == <<0, 0, 0, 0>>
NoColor == <<>>
Red == <<1, 0, 0, 1>>
ClearColors == {NoColor, Red}

\* the (clear, clearColor) arguments callers give
ClearArgs == {<<"omitted", NoColor>>, <<"true", Red>>, <<"false", NoColor>>}

\* a parameter declared `clear = true`
defaultClear(arg) == IF arg = "omitted" THEN TRUE ELSE arg = "true"

VARIABLES
    application,    \* the surfaces and textures the application works with
    renderSurfaceToRenderTargetHash,  \* Map<RenderSurface, RenderTarget>
    gpuRenderTargetHash,              \* Record<uid, GpuRenderTarget>
    renderTargetStack,
    renderTarget,
    rootRenderTarget,
    isRoot,         \* the RenderTargets whose isRoot flag is set
    sources,        \* texture -> [width, height, resolution] of its source
    depthSamples4,  \* the depth textures whose source.sampleCount was set to 4
    encoder,        \* renderer.encoder: whether start() was called on it
    multisampleCount,  \* renderer.pipeline's multisample count
    emitted,        \* the argument of the last onRenderTargetChange.emit
    counts,         \* how often RenderTargets, GpuRenderTargets, configures happened
    last            \* the call that ran last and how it ended

vars == <<application, renderSurfaceToRenderTargetHash, gpuRenderTargetHash, renderTargetStack,
          renderTarget, rootRenderTarget, isRoot, sources, depthSamples4, encoder,
          multisampleCount, emitted, counts, last>>

\* ------------------------------------------------- collaborators' data
InitialSize == [width |-> 1, height |-> 1, resolution |-> 1]

\* the sizes the application gives a texture: the initial one, a wider one, a
\* taller one of another resolution
Sizes ==
    {InitialSize,
     [width |-> 2, height |-> 1, resolution |-> 1],
     [width |-> 1, height |-> 2, resolution |-> 2]}

\* renderTarget.width / renderTarget.height: those of the first color attachment
targetWidth(s, rt) == s.sources[colorTexture(rt)].width
targetHeight(s, rt) == s.sources[colorTexture(rt)].height

\* new TextureSource({ width: 0, height: 0, sampleCount: 4 }); resolution 0 stands
\* for "not given to the constructor"
NewMsaaTexture == [width |-> 0, height |-> 0, resolution |-> 0]

\* TextureSource.resize(width, height, resolution)
resize(texture, width, height, resolution) ==
    [texture EXCEPT !.width = width, !.height = height, !.resolution = resolution]

\* new GpuRenderTarget(): no contexts, no msaa textures, one sample, no size yet
NewGpuRenderTarget ==
    [contexts |-> <<>>, msaaTextures |-> <<>>, msaa |-> FALSE, msaaSamples |-> 1,
     width |-> 0, height |-> 0]

NoView == <<"none", "none">>
NoDepthStencilAttachment ==
    [present |-> FALSE, view |-> NoView, stencilStoreOp |-> "none", stencilLoadOp |-> "none"]
NoDescriptor == [colorAttachments |-> <<>>, depthStencilAttachment |-> NoDepthStencilAttachment]
NoPass == [begun |-> FALSE, target |-> Undefined, descriptor |-> NoDescriptor]
NoCopy == [from |-> NoView, origin |-> <<0, 0>>, to |-> NoView, size |-> <<0, 0>>]

\* ------------------------------------------------- the system as one record
\* The fields of the system and of its collaborators, threaded through the
\* methods below.  Of the running call: threw says it ended in an exception, ret
\* is its return value, trace the calls it made in order, pass the pass it had
\* the encoder begin last and copy the copy it had the command encoder record.
Cur ==
    [hash |-> renderSurfaceToRenderTargetHash, gpu |-> gpuRenderTargetHash,
     stack |-> renderTargetStack, rt |-> renderTarget, root |-> rootRenderTarget,
     isRoot |-> isRoot, sources |-> sources, depth4 |-> depthSamples4,
     encoder |-> encoder, ms |-> multisampleCount, emitted |-> emitted,
     counts |-> counts, threw |-> FALSE, ret |-> Undefined, trace |-> <<>>,
     pass |-> NoPass, copy |-> NoCopy]

Count(f, k) == IF k \in DOMAIN f THEN f[k] ELSE 0
Put(f, k, v) == (k :> v) @@ f

\* initRenderTarget, lines 244-248: flag the target, cache it, return it
cacheRenderTarget(s, renderSurface, rt) ==
    [s EXCEPT !.isRoot = @ \cup {rt},
              !.hash = Put(@, renderSurface, rt),
              !.ret = rt]

\* initRenderTarget (private)
initRenderTarget(s, renderSurface) ==
    IF IsRenderTarget(renderSurface)
    THEN cacheRenderTarget(s, renderSurface, renderSurface)
    ELSE IF IsTexture(renderSurface)
    THEN cacheRenderTarget(
             [s EXCEPT !.counts.created =
                 Put(@, renderSurface[1], Count(@, renderSurface[1]) + 1)],
             renderSurface,
             <<renderSurface[1], Count(s.counts.created, renderSurface[1]) + 1>>)
    \* renderTarget is still null: `renderTarget.isRoot = true` throws
    ELSE [s EXCEPT !.threw = TRUE]

getRenderTarget(s, renderSurface) ==
    IF renderSurface \in DOMAIN s.hash
    THEN [s EXCEPT !.ret = s.hash[renderSurface]]
    ELSE initRenderTarget(s, renderSurface)

\* mutant of configure: no try/catch around context.configure
configureUncaught(acc, canvas) ==
    [acc EXCEPT !.configure = Put(@, canvas, Count(@, canvas) + 1),
                !.threw = canvas \in application.failing]

\* the try/catch around context.configure of the context of canvas: a failure
\* is reported with console.error and goes no further
configure(acc, canvas) ==
    [acc EXCEPT !.configure = Put(@, canvas, Count(@, canvas) + 1),
                !.trace = IF canvas \in application.failing
                          THEN @ \o <<"console.error">> ELSE @]

\* `gpuRenderTarget.contexts[i] = context`
storeContext(acc, i, canvas) ==
    IF acc.threw THEN acc ELSE [acc EXCEPT !.g.contexts = Put(@, i, canvas)]

\* the context and configure part of the forEach body of initGpuRenderTarget
\* for attachment i; acc = [g, configure, threw, trace]
initContext(acc, rt, i) ==
    IF resource(colorTextures(rt)[i]) \notin Canvases THEN acc
    \* the first attachment has no canvas to call getContext on
    ELSE IF resource(colorTexture(rt)) \notin Canvases THEN [acc EXCEPT !.threw = TRUE]
    ELSE storeContext(configure(acc, resource(colorTexture(rt))),
                      i, resource(colorTexture(rt)))

\* the msaa part of the forEach body of initGpuRenderTarget for attachment i
initMsaa(acc, rt, i) ==
    IF acc.threw THEN acc
    ELSE [acc EXCEPT
             !.g.msaa = antialias(colorTextures(rt)[i]),
             !.g.msaaTextures =
                 IF antialias(colorTextures(rt)[i]) THEN Put(@, i, NewMsaaTexture) ELSE @]

\* the forEach over renderTarget.colorTextures of initGpuRenderTarget, from
\* attachment i on
RECURSIVE initAttachments(_, _, _)
initAttachments(acc, rt, i) ==
    IF acc.threw \/ i > Len(colorTextures(rt)) THEN acc
    ELSE initAttachments(initMsaa(initContext(acc, rt, i), rt, i), rt, i + 1)

\* initGpuRenderTarget after the forEach: sample counts and the cache
cacheGpuRenderTarget(s, rt, acc) ==
    IF acc.threw THEN [s EXCEPT !.threw = TRUE]
    ELSE [s EXCEPT
             !.counts.configure = acc.configure,
             !.trace = @ \o acc.trace,
             !.depth4 = IF acc.g.msaa /\ depthTexture(rt) # NoTexture
                        THEN @ \cup {depthTexture(rt)} ELSE @,
             !.gpu = Put(@, rt, IF acc.g.msaa
                                THEN [acc.g EXCEPT !.msaaSamples = 4] ELSE acc.g),
             !.ret = rt]

\* initGpuRenderTarget (private)
initGpuRenderTarget(s, rt) ==
    cacheGpuRenderTarget(
        [s EXCEPT !.isRoot = @ \cup {rt},
                  !.counts.init = Put(@, rt, Count(@, rt) + 1)],
        rt,
        initAttachments([g |-> NewGpuRenderTarget, configure |-> s.counts.configure,
                         threw |-> FALSE, trace |-> <<>>], rt, 1))

\* getGpuRenderTarget (private); the GpuRenderTarget is s.gpu[rt] afterwards
getGpuRenderTarget(s, rt) ==
    IF rt \in DOMAIN s.gpu THEN s ELSE initGpuRenderTarget(s, rt)

\* the msaa textures of g after the forEach of resizeGpuRenderTarget
resizeMsaaTextures(s, rt, g) ==
    [i \in DOMAIN g.msaaTextures |->
        resize(g.msaaTextures[i],
               s.sources[colorTextures(rt)[i]].width,
               s.sources[colorTextures(rt)[i]].height,
               s.sources[colorTextures(rt)[i]].resolution)]

\* resizeGpuRenderTarget once it has its GpuRenderTarget
resizeCached(s, rt) ==
    IF s.threw THEN s
    ELSE [s EXCEPT !.gpu[rt] =
             [s.gpu[rt] EXCEPT
                 !.width = targetWidth(s, rt),
                 !.height = targetHeight(s, rt),
                 !.msaaTextures =
                     IF s.gpu[rt].msaa THEN resizeMsaaTextures(s, rt, s.gpu[rt]) ELSE @]]

\* resizeGpuRenderTarget (private)
resizeGpuRenderTarget(s, rt) == resizeCached(getGpuRenderTarget(s, rt), rt)

\* `clear ? 'clear' : 'load'`
loadOp(clear) == IF clear THEN "clear" ELSE "load"

\* mutant of clearValueOrDefault: no default for a missing clear value
clearValueAsGiven(clearValue) == clearValue

\* `clearValue || DEFAULT_CLEAR_COLOR`
clearValueOrDefault(clearValue) ==
    IF clearValue = NoColor THEN DEFAULT_CLEAR_COLOR ELSE clearValue

\* the view getDescriptor picks first for attachment i
baseView(g, texture, i) ==
    IF i \in DOMAIN g.contexts
    THEN <<"swapchain", g.contexts[i]>>
    ELSE <<"texture", texture>>

\* mutant of colorAttachment: an msaa view that resolves nowhere
colorAttachmentUnresolved(g, texture, i, clear, clearValue) ==
    [view |-> IF i \in DOMAIN g.msaaTextures
              THEN <<"msaa", texture>> ELSE baseView(g, texture, i),
     resolveTarget |-> NoView,
     clearValue |-> clearValueOrDefault(clearValue),
     storeOp |-> "store",
     loadOp |-> loadOp(clear)]

\* one element of the colorAttachments map of getDescriptor
colorAttachment(g, texture, i, clear, clearValue) ==
    [view |-> IF i \in DOMAIN g.msaaTextures
              THEN <<"msaa", texture>> ELSE baseView(g, texture, i),
     resolveTarget |-> IF i \in DOMAIN g.msaaTextures
                       THEN baseView(g, texture, i) ELSE NoView,
     clearValue |-> clearValueOrDefault(clearValue),
     storeOp |-> "store",
     loadOp |-> loadOp(clear)]

\* mutant of depthStencilAttachment: the stencil is cleared whatever the flag
depthStencilCleared(rt, clear) ==
    IF depthTexture(rt) # NoTexture
    THEN [present |-> TRUE, view |-> <<"depth", depthTexture(rt)>>,
          stencilStoreOp |-> "store", stencilLoadOp |-> "clear"]
    ELSE NoDepthStencilAttachment

\* the depthStencilAttachment of getDescriptor
depthStencilAttachment(rt, clear) ==
    IF depthTexture(rt) # NoTexture
    THEN [present |-> TRUE, view |-> <<"depth", depthTexture(rt)>>,
          stencilStoreOp |-> "store", stencilLoadOp |-> loadOp(clear)]
    ELSE NoDepthStencilAttachment

\* getDescriptor once it has its GpuRenderTarget
describe(s, rt, clear, clearValue) ==
    IF s.threw THEN s
    ELSE [s EXCEPT !.ret =
             [colorAttachments |->
                  [i \in 1..Len(colorTextures(rt)) |->
                      colorAttachment(s.gpu[rt], colorTextures(rt)[i], i, clear, clearValue)],
              depthStencilAttachment |-> depthStencilAttachment(rt, clear)]]

\* getDescriptor: the descriptor is s.ret afterwards
getDescriptor(s, rt, clear, clearValue) ==
    describe(getGpuRenderTarget(s, rt), rt, clear, clearValue)

\* mutant of sizeChanged: only the width is compared
sizeChangedWidthOnly(s, rt) == targetWidth(s, rt) # s.gpu[rt].width

\* the test of bind that decides whether to resize
sizeChanged(s, rt) ==
    targetWidth(s, rt) # s.gpu[rt].width \/ targetHeight(s, rt) # s.gpu[rt].height

\* mutant of beginRenderPass: the pipeline keeps the multisample count it had
beginRenderPassKeepingCount(s, rt) ==
    [s EXCEPT !.pass = [begun |-> TRUE, target |-> rt, descriptor |-> s.ret],
              !.emitted = rt,
              !.trace = @ \o <<"beginRenderPass", "setMultisampleCount", "emit">>,
              !.ret = rt]

\* bind, lines 85-94: s.ret is the descriptor built
beginRenderPass(s, rt) ==
    [s EXCEPT !.pass = [begun |-> TRUE, target |-> rt, descriptor |-> s.ret],
              !.ms = s.gpu[rt].msaaSamples,
              !.emitted = rt,
              !.trace = @ \o <<"beginRenderPass", "setMultisampleCount", "emit">>,
              !.ret = rt]

\* bind, lines 78-94: s has the GpuRenderTarget of rt, unless it threw
bindCached(s, rt, clear, clearColor) ==
    IF s.threw THEN s
    ELSE beginRenderPass(
             getDescriptor(
                 IF sizeChanged(s, rt)
                 THEN resizeGpuRenderTarget(
                          [s EXCEPT !.trace = @ \o <<"resizeGpuRenderTarget">>], rt)
                 ELSE s,
                 rt, clear, clearColor),
             rt)

\* bind, lines 74-94: s.ret is the RenderTarget resolved, unless it threw
bindTarget(s, clear, clearColor) ==
    IF s.threw THEN s
    ELSE bindCached(getGpuRenderTarget([s EXCEPT !.rt = s.ret], s.ret),
                    s.ret, clear, clearColor)

bind(s, renderSurface, clear, clearColor) ==
    bindTarget(getRenderTarget(s, renderSurface), clear, clearColor)

\* what renderTargetStack.push(renderTarget) leaves
stackPush(stack, rt) == Append(stack, rt)

\* what renderTargetStack.pop() leaves
stackPop(stack) == IF stack = <<>> THEN stack ELSE SubSeq(stack, 1, Len(stack) - 1)

\* renderTargetStack[renderTargetStack.length - 1]
stackTop(stack) == IF stack = <<>> THEN Undefined ELSE stack[Len(stack)]

\* push, lines 179-181: s is the system after the bind
pushBound(s) == IF s.threw THEN s ELSE [s EXCEPT !.stack = stackPush(@, s.ret)]

push(s, renderSurface, clear, clearColor) ==
    pushBound(bind(s, renderSurface, clear, clearColor))

\* mutant of popClear: pop clears the target it resumes
popClearsTarget == TRUE

\* the clear argument pop hands to bind
popClear == FALSE

\* mutant of pop: nothing happens when one element or none is left
popGuarded(s) ==
    IF Len(s.stack) <= 1 THEN s
    ELSE bind([s EXCEPT !.stack = stackPop(@)], stackTop(stackPop(s.stack)), popClear, NoColor)

pop(s) ==
    bind([s EXCEPT !.stack = stackPop(@)], stackTop(stackPop(s.stack)), popClear, NoColor)

\* start, lines 55-62: s.ret is the root RenderTarget resolved, unless it threw
startRoot(s, rootRenderSurface, clear, clearColor) ==
    IF s.threw THEN s
    ELSE push([s EXCEPT !.root = s.ret,
                        !.stack = <<>>,
                        !.encoder.started = TRUE,
                        !.trace = @ \o <<"encoder.start">>],
              rootRenderSurface, clear, clearColor)

start(s, rootRenderSurface, clear, clearColor) ==
    startRoot(getRenderTarget(s, rootRenderSurface), rootRenderSurface, clear, clearColor)

\* the clear argument restart hands to bind
restartClear == FALSE

\* mutant of restart: rebinds the top of the stack instead of the root
restartTop(s) == bind(s, stackTop(s.stack), restartClear, NoColor)

restart(s) == bind(s, s.root, restartClear, NoColor)

\* mutant of colorTextureOf: the backing texture even of a window-backed target
colorTextureOfSource(s, rt) ==
    IF s.threw THEN s ELSE [s EXCEPT !.ret = <<"texture", colorTexture(rt)>>]

\* getGpuColorTexture once it has its GpuRenderTarget: the GPUTexture is s.ret
colorTextureOf(s, rt) ==
    IF s.threw THEN s
    ELSE [s EXCEPT !.ret = IF 1 \in DOMAIN s.gpu[rt].contexts
                           THEN <<"swapchain", s.gpu[rt].contexts[1]>>
                           ELSE <<"texture", colorTexture(rt)>>]

getGpuColorTexture(s, rt) == colorTextureOf(getGpuRenderTarget(s, rt), rt)

\* copyToTexture, lines 206-215: s.ret is the GPUTexture to copy from
copyFrom(s, destinationTexture, origin, size) ==
    IF s.threw THEN s
    ELSE [s EXCEPT
             !.copy = [from |-> s.ret, origin |-> origin,
                       to |-> <<"texture", destinationTexture>>, size |-> size],
             !.trace = @ \o <<"copyTextureToTexture">>,
             !.ret = <<destinationTexture, 0>>]

copyToTexture(s, sourceRenderSurfaceTexture, destinationTexture, origin, size) ==
    copyFrom(getGpuColorTexture(s, sourceRenderSurfaceTexture),
             destinationTexture, origin, size)

\* mutant of destroy: both caches are emptied
destroyClearsCaches(s) == [s EXCEPT !.hash = <<>>, !.gpu = <<>>]

\* destroy: an empty body
destroy(s) == s

\* ------------------------------------------------------------ the calls
NoPrev == [pushed |-> FALSE, before |-> <<>>]

\* the RenderTarget objects the application can hand to getDescriptor,
\* getGpuColorTexture and copyToTexture: its own and the constructed ones
KnownTargets ==
    {o \in application.surfaces : IsRenderTarget(o)}
        \cup {renderSurfaceToRenderTargetHash[k] : k \in DOMAIN renderSurfaceToRenderTargetHash}

Origins == {<<1, 0>>}
CopySizes == {<<1, 1>>}
Destinations == {"tA"}

\* the counters stay within MaxInit
Bounded(r) ==
    /\ \A k \in DOMAIN r.counts.init : r.counts.init[k] <= MaxInit
    /\ \A k \in DOMAIN r.counts.created : r.counts.created[k] <= MaxInit

\* the calls that return a RenderTarget or a Texture
ReturnsObject == {"bind", "push", "getRenderTarget", "copyToTexture"}

\* The nesting after a call that ended as r: 1 plus the pushes that returned
\* minus the pops since the last start that returned, as long as no bind,
\* no restart and no pop of a stack of one element was called since; 0 otherwise.
nestedAfter(op, r) ==
    CASE op = "start" -> IF r.threw THEN 0 ELSE 1
      [] op = "push" -> IF last.nested = 0 \/ r.threw THEN last.nested
                        ELSE last.nested + 1
      [] op = "pop" -> IF last.nested = 0 \/ Len(renderTargetStack) <= 1 THEN 0
                       ELSE last.nested - 1
      [] op \in {"bind", "restart"} -> 0
      [] OTHER -> last.nested

\* The record of a call: what it was given, the stack it found, how it ended.
\* stale: the target it had to bind had a GpuRenderTarget of another size;
\* prev: for a pop right after a push that returned, the stack before that push;
\* nested: the nesting of pushes and pops since start.
Call(op, surface, clear, clearColor, stale, prev, r) ==
    [op |-> op, ok |-> ~r.threw, surface |-> surface, nested |-> nestedAfter(op, r),
     clear |-> IF r.threw THEN FALSE ELSE clear,
     clearColor |-> IF r.threw THEN NoColor ELSE clearColor,
     before |-> renderTargetStack, stale |-> stale,
     prev |-> prev, trace |-> r.trace, pass |-> r.pass, copy |-> r.copy,
     ret |-> IF r.threw \/ op \notin ReturnsObject THEN Undefined ELSE r.ret]

\* r, the outcome of getRenderTarget, is a target with a GpuRenderTarget of another size
staleTarget(r) ==
    /\ ~r.threw
    /\ r.ret \in DOMAIN gpuRenderTargetHash
    /\ sizeChanged(Cur, r.ret)

\* the target a bind of surface resolves to has a GpuRenderTarget of another size
Stale(surface) == staleTarget(getRenderTarget(Cur, surface))

Commit(r, call) ==
    /\ Bounded(r)
    /\ renderSurfaceToRenderTargetHash' = r.hash
    /\ gpuRenderTargetHash' = r.gpu
    /\ renderTargetStack' = r.stack
    /\ renderTarget' = r.rt
    /\ rootRenderTarget' = r.root
    /\ isRoot' = r.isRoot
    /\ sources' = r.sources
    /\ depthSamples4' = r.depth4
    /\ encoder' = r.encoder
    /\ multisampleCount' = r.ms
    /\ emitted' = r.emitted
    /\ counts' = r.counts
    /\ last' = call
    /\ UNCHANGED application

\* the state after construction
Constructed ==
    /\ renderSurfaceToRenderTargetHash = <<>>
    /\ gpuRenderTargetHash = <<>>
    /\ renderTargetStack = <<>>
    /\ renderTarget = Undefined
    /\ rootRenderTarget = Undefined
    /\ isRoot = {}
    /\ sources = [t \in Textures |-> InitialSize]
    /\ depthSamples4 = {}
    /\ encoder = [started |-> FALSE]
    /\ multisampleCount = 1
    /\ emitted = Undefined
    /\ counts = [created |-> <<>>, init |-> <<>>, configure |-> <<>>]
    /\ last = [op |-> "new", ok |-> TRUE, surface |-> Undefined, clear |-> FALSE,
               clearColor |-> NoColor, before |-> <<>>, stale |-> FALSE,
               prev |-> NoPrev, trace |-> <<>>, pass |-> NoPass, copy |-> NoCopy,
               ret |-> Undefined, nested |-> 0]

Init == application = FrameApplication /\ Constructed
InitResize == application \in ResizeApplications /\ Constructed
InitBackend == application = BackendApplication /\ Constructed
InitConfigure == application \in ConfigureApplications /\ Constructed

\* a call that ended as r, recorded and committed
Do(op, surface, clear, clearColor, stale, prev, r) ==
    Commit(r, Call(op, surface, clear, clearColor, stale, prev, r))

Start ==
    \E surface \in application.surfaces, args \in ClearArgs :
        Do("start", surface, defaultClear(args[1]), args[2], Stale(surface), NoPrev,
           start(Cur, surface, defaultClear(args[1]), args[2]))

Bind ==
    \E surface \in application.surfaces, args \in ClearArgs :
        Do("bind", surface, defaultClear(args[1]), args[2], Stale(surface), NoPrev,
           bind(Cur, surface, defaultClear(args[1]), args[2]))

Push ==
    /\ Len(renderTargetStack) < MaxStack
    /\ \E surface \in application.surfaces, args \in ClearArgs :
        Do("push", surface, defaultClear(args[1]), args[2], Stale(surface), NoPrev,
           push(Cur, surface, defaultClear(args[1]), args[2]))

Pop ==
    \E top \in {stackTop(stackPop(renderTargetStack))} :
        Do("pop", top, popClear, NoColor, Stale(top),
           IF last.op = "push" /\ last.ok
           THEN [pushed |-> TRUE, before |-> last.before] ELSE NoPrev,
           pop(Cur))

Restart ==
    \E root \in {rootRenderTarget} :
        Do("restart", root, restartClear, NoColor, Stale(root), NoPrev, restart(Cur))

GetRenderTarget ==
    \E surface \in application.surfaces :
        Do("getRenderTarget", surface, FALSE, NoColor, FALSE, NoPrev,
           getRenderTarget(Cur, surface))

GetDescriptor ==
    \E rt \in KnownTargets, clear \in BOOLEAN, clearValue \in ClearColors :
        Do("getDescriptor", Undefined, FALSE, NoColor, FALSE, NoPrev,
           getDescriptor(Cur, rt, clear, clearValue))

GetGpuColorTexture ==
    \E rt \in KnownTargets :
        Do("getGpuColorTexture", Undefined, FALSE, NoColor, FALSE, NoPrev,
           getGpuColorTexture(Cur, rt))

CopyToTexture ==
    \E rt \in KnownTargets, destination \in Destinations,
       origin \in Origins, size \in CopySizes :
        Do("copyToTexture", rt, FALSE, NoColor, FALSE, NoPrev,
           copyToTexture(Cur, rt, destination, origin, size))

Destroy ==
    \E s \in {Cur} :
        Do("destroy", Undefined, FALSE, NoColor, FALSE, NoPrev, destroy(s))

\* the application resizes a texture between two calls
ResizeTexture ==
    \E t \in application.resizable, size \in Sizes :
        /\ size # sources[t]
        /\ Do("resizeTexture", Undefined, FALSE, NoColor, FALSE, NoPrev,
              [Cur EXCEPT !.sources[t] = size])

Next ==
    \/ Start
    \/ Bind
    \/ Push
    \/ Pop
    \/ Restart
    \/ GetRenderTarget
    \/ GetDescriptor
    \/ GetGpuColorTexture
    \/ CopyToTexture
    \/ Destroy

NextResize ==
    \/ Next
    \/ ResizeTexture

\* a frame loop over a canvas, a texture and an explicit render target
Spec == Init /\ [][Next]_vars

\* the same calls while the application resizes textures
SpecResize == InitResize /\ [][NextResize]_vars

\* the same calls over explicit render targets with several color attachments
SpecBackend == InitBackend /\ [][Next]_vars

\* the same calls over window-backed targets whose canvases may fail to configure
SpecConfigure == InitConfigure /\ [][Next]_vars

\* ------------------------------------------------------------ the claims
\* the calls that bind a target
Binders == {"start", "bind", "push", "pop", "restart"}

\* every color attachment of the pass the last call began has this load operation
AllColorLoadOps(op) ==
    \A i \in DOMAIN last.pass.descriptor.colorAttachments :
        last.pass.descriptor.colorAttachments[i].loadOp = op

\* a, then b, occur in this order in trace
InOrder(a, b, trace) ==
    \E i, j \in DOMAIN trace : i < j /\ trace[i] = a /\ trace[j] = b

\* C1: a pop right after a push that returned, onto a stack that was not empty,
\* returns, leaves the stack as it was before the push, makes the top of that
\* stack the current render target, and begins for it a pass that loads (never
\* clears) every color attachment and the depth/stencil attachment.
C1_PushPopRestores ==
    (last.op = "pop" /\ last.prev.pushed /\ last.prev.before # <<>>) =>
        /\ last.ok
        /\ renderTargetStack = last.prev.before
        /\ renderTarget = last.prev.before[Len(last.prev.before)]
        /\ last.pass.begun
        /\ last.pass.target = renderTarget
        /\ last.pass.descriptor.colorAttachments # <<>>
        /\ AllColorLoadOps("load")
        /\ last.pass.descriptor.depthStencilAttachment.stencilLoadOp # "clear"

\* C1 happens: a pop right after a push onto a stack of two different targets
C1_Witness ==
    /\ last.op = "pop"
    /\ last.prev.pushed
    /\ Len(last.prev.before) = 2
    /\ last.prev.before[1] # last.prev.before[2]
    /\ last.pass.begun

\* C2: after every start, whatever the surface (a native canvas included), the
\* call has returned, the stack is exactly [root], the root is the render target
\* cached for the surface and the current render target, and the pass begun for
\* it has the requested clear flag and colour.
C2_StartResetsStack ==
    last.op = "start" =>
        /\ last.ok
        /\ renderTargetStack = <<rootRenderTarget>>
        /\ last.surface \in DOMAIN renderSurfaceToRenderTargetHash
        /\ rootRenderTarget = renderSurfaceToRenderTargetHash[last.surface]
        /\ renderTarget = rootRenderTarget
        /\ last.pass.begun
        /\ last.pass.target = rootRenderTarget
        /\ AllColorLoadOps(IF last.clear THEN "clear" ELSE "load")

\* C3: every getRenderTarget(S), for a canvas, a texture or a RenderTarget,
\* returns the one RenderTarget cached for S, and no texture ever has more than
\* one RenderTarget constructed around it.
C3_SameRenderTarget ==
    /\ \A t \in DOMAIN counts.created : counts.created[t] <= 1
    /\ last.op = "getRenderTarget" =>
           /\ last.ok
           /\ last.surface \in DOMAIN renderSurfaceToRenderTargetHash
           /\ last.ret = renderSurfaceToRenderTargetHash[last.surface]

\* C4: initGpuRenderTarget runs at most once for any RenderTarget.
C4_InitGpuOnce ==
    \A rt \in DOMAIN counts.init : counts.init[rt] <= 1

\* C5: once start has started the encoder of a frame, the stack is never empty.
C5_StackNeverEmpty ==
    encoder.started => renderTargetStack # <<>>

\* C6: once a frame has started, the bottom of a non-empty stack is the root
\* render target.
C6_RootAtBottom ==
    (encoder.started /\ renderTargetStack # <<>>) =>
        renderTargetStack[1] = rootRenderTarget

\* C7: a GpuRenderTarget whose target's color source asked for antialiasing has
\* 4 samples and one msaa texture per color attachment; any other has 1 sample
\* and no msaa texture.
C7_MsaaInvariant ==
    \A rt \in DOMAIN gpuRenderTargetHash :
        IF antialias(colorTexture(rt))
        THEN /\ gpuRenderTargetHash[rt].msaaSamples = 4
             /\ DOMAIN gpuRenderTargetHash[rt].msaaTextures = 1..Len(colorTextures(rt))
        ELSE /\ gpuRenderTargetHash[rt].msaaSamples = 1
             /\ DOMAIN gpuRenderTargetHash[rt].msaaTextures = {}

\* C8: after every call that bound a target, the cached width and height of its
\* GpuRenderTarget are the target's; and when the target came with a
\* GpuRenderTarget of another size, the resize ran before the pass began and,
\* with msaa on, left every msaa texture with the width, height and resolution
\* of the color attachment of the same index.
C8_ResizeOnBind ==
    (last.op \in Binders /\ last.ok) =>
        /\ renderTarget \in DOMAIN gpuRenderTargetHash
        /\ gpuRenderTargetHash[renderTarget].width = sources[colorTexture(renderTarget)].width
        /\ gpuRenderTargetHash[renderTarget].height = sources[colorTexture(renderTarget)].height
        /\ last.stale =>
               /\ InOrder("resizeGpuRenderTarget", "beginRenderPass", last.trace)
               /\ gpuRenderTargetHash[renderTarget].msaa =>
                      \A i \in DOMAIN gpuRenderTargetHash[renderTarget].msaaTextures :
                          gpuRenderTargetHash[renderTarget].msaaTextures[i]
                              = sources[colorTextures(renderTarget)[i]]

\* C8 happens: a target of two attachments of different sizes, msaa on, is bound
\* again after its size changed
C8_Witness ==
    /\ last.op \in Binders
    /\ last.ok
    /\ last.stale
    /\ gpuRenderTargetHash[renderTarget].msaa
    /\ 2 \in DOMAIN gpuRenderTargetHash[renderTarget].msaaTextures
    /\ sources[colorTextures(renderTarget)[2]] # sources[colorTextures(renderTarget)[1]]

\* C9: the pass of a bind has one color attachment per color texture, each with
\* store operation "store"; with clear they have load operation "clear" and the
\* clear value given, [0,0,0,0] when none is given; without clear, "load".
C9_ClearLoadOp ==
    (last.op \in Binders /\ last.ok) =>
        /\ last.pass.begun
        /\ DOMAIN last.pass.descriptor.colorAttachments
               = 1..Len(colorTextures(last.pass.target))
        /\ \A i \in DOMAIN last.pass.descriptor.colorAttachments :
               /\ last.pass.descriptor.colorAttachments[i].storeOp = "store"
               /\ last.clear =>
                      /\ last.pass.descriptor.colorAttachments[i].loadOp = "clear"
                      /\ last.pass.descriptor.colorAttachments[i].clearValue
                             = IF last.clearColor = <<>>
                               THEN <<0, 0, 0, 0>> ELSE last.clearColor
               /\ ~last.clear =>
                      last.pass.descriptor.colorAttachments[i].loadOp = "load"

\* C9 happens: a bind with clear and no clear value, of a target of two attachments
C9_Witness ==
    /\ last.op = "bind"
    /\ last.ok
    /\ last.clear
    /\ last.clearColor = <<>>
    /\ Len(last.pass.descriptor.colorAttachments) = 2

\* C10: after a restart that returned, the current render target is the root
\* render target, the pass begun is for it and loads every color attachment,
\* and the stack is as it was before the call.
C10_RestartRebindsRoot ==
    (last.op = "restart" /\ last.ok) =>
        /\ renderTarget = rootRenderTarget
        /\ last.pass.begun
        /\ last.pass.target = rootRenderTarget
        /\ last.pass.descriptor.colorAttachments # <<>>
        /\ AllColorLoadOps("load")
        /\ renderTargetStack = last.before

\* C10 happens: a restart while another target is on top of the stack
C10_Witness ==
    /\ last.op = "restart"
    /\ last.ok
    /\ Len(renderTargetStack) >= 2
    /\ renderTargetStack[Len(renderTargetStack)] # rootRenderTarget

\* C11: configure is called at most once on the context of any canvas, and the
\* context stored for a window-backed attachment is that of the attachment's own
\* canvas.
C11_ConfigureOncePerCanvas ==
    /\ \A c \in DOMAIN counts.configure : counts.configure[c] <= 1
    /\ \A rt \in DOMAIN gpuRenderTargetHash :
           \A i \in DOMAIN gpuRenderTargetHash[rt].contexts :
               gpuRenderTargetHash[rt].contexts[i] = resource(colorTextures(rt)[i])

\* C12: after every call that bound a target and returned (a bind, start, push,
\* pop or restart), the pipeline's multisample count is the sample count of the
\* GpuRenderTarget of the current render target, set by that call.
C12_MultisampleCountPropagated ==
    (last.op \in Binders /\ last.ok) =>
        /\ renderTarget \in DOMAIN gpuRenderTargetHash
        /\ multisampleCount = gpuRenderTargetHash[renderTarget].msaaSamples
        /\ InOrder("beginRenderPass", "setMultisampleCount", last.trace)

\* C12 happens: a pop returns from a target of 4 samples to a parent of 1 sample
C12_Witness ==
    /\ last.op = "pop"
    /\ last.ok
    /\ multisampleCount = 1
    /\ stackTop(last.before) \in DOMAIN gpuRenderTargetHash
    /\ gpuRenderTargetHash[stackTop(last.before)].msaaSamples = 4

\* C13: in every state the target of the last notification is the current render
\* target: every change of the current render target is followed by a
\* notification that carries it, within the call that made the change.
C13_NotifiedOfCurrent ==
    emitted = renderTarget

\* C14: a call that binds a target and runs its first-time backend setup, in
\* which configure throws, returns all the same: the failure is reported, the
\* GpuRenderTarget is cached, every window-backed attachment has its context
\* recorded and every antialiased attachment its msaa texture, and the pass
\* begins for the target, which is the current render target.
C14_ConfigureFailureSwallowed ==
    [][(/\ last'.op \in Binders
        /\ counts'.init # counts.init
        /\ IsRenderTarget(renderTarget')
        /\ resource(colorTexture(renderTarget')) \in application.failing)
       => /\ last'.ok
          /\ \E k \in DOMAIN last'.trace : last'.trace[k] = "console.error"
          /\ renderTarget' \in DOMAIN gpuRenderTargetHash'
          /\ \A i \in 1..Len(colorTextures(renderTarget')) :
                 /\ resource(colorTextures(renderTarget')[i]) \in Canvases
                        => i \in DOMAIN gpuRenderTargetHash'[renderTarget'].contexts
                 /\ antialias(colorTextures(renderTarget')[i])
                        => i \in DOMAIN gpuRenderTargetHash'[renderTarget'].msaaTextures
          /\ last'.pass.begun
          /\ last'.pass.target = renderTarget'
          /\ InOrder("console.error", "beginRenderPass", last'.trace)]_vars

\* C14 happens: configure failed for the first of two window-backed attachments,
\* the second was still set up and the pass began
C14_Witness ==
    /\ last.op \in Binders
    /\ last.ok
    /\ \E k \in DOMAIN last.trace : last.trace[k] = "console.error"
    /\ last.pass.begun
    /\ Len(colorTextures(renderTarget)) = 2
    /\ DOMAIN gpuRenderTargetHash[renderTarget].contexts = {1, 2}
    /\ 2 \in DOMAIN gpuRenderTargetHash[renderTarget].msaaTextures

\* C15: a lookup of a Texture returns a RenderTarget constructed around it, with
\* that texture as its one color attachment and the texture's depth/stencil as
\* its depth texture; a lookup of a RenderTarget returns that very object,
\* marked root; and the lookup marks no other target root: a target marked root
\* is a RenderTarget surface or was marked by the backend setup.
C15_ConstructsBySurfaceKind ==
    /\ (last.op = "getRenderTarget" /\ last.ok /\ IsTexture(last.surface)) =>
           /\ last.ret[2] >= 1
           /\ colorTextures(last.ret) = <<last.surface[1]>>
           /\ depthTexture(last.ret) = depthStencil(last.surface[1])
    /\ (last.op = "getRenderTarget" /\ last.ok /\ IsRenderTarget(last.surface)) =>
           /\ last.ret = last.surface
           /\ last.ret \in isRoot
    /\ \A rt \in isRoot : rt[2] = 0 \/ rt \in DOMAIN counts.init

\* the last call recorded one copy and nothing else: from the current texture of
\* the canvas of the source target's first color attachment when that is
\* window-backed, from that attachment's own GPU texture otherwise, to the
\* texture it returned, with an origin and a size it was given; it began no pass
CopyRecorded ==
    /\ last.ret[1] \in Destinations
    /\ last.copy.to = <<"texture", last.ret[1]>>
    /\ last.copy.from =
           IF resource(colorTextures(last.surface)[1]) \in Canvases
           THEN <<"swapchain", resource(colorTextures(last.surface)[1])>>
           ELSE <<"texture", colorTextures(last.surface)[1]>>
    /\ last.copy.origin \in Origins
    /\ last.copy.size \in CopySizes
    /\ \A k \in DOMAIN last.trace :
           last.trace[k] \in {"copyTextureToTexture", "console.error"}
    /\ Cardinality({k \in DOMAIN last.trace :
                       last.trace[k] = "copyTextureToTexture"}) = 1
    /\ ~last.pass.begun

\* C16: a copyToTexture changes neither the stack nor the current render target
\* nor the root render target; when it returns, it returns the destination
\* texture and has recorded exactly one copy, from the live color texture of the
\* source target's first color attachment, with the origin and size given, and
\* begun no pass.
C16_CopyToTexture ==
    [][last'.op = "copyToTexture" =>
           /\ renderTargetStack' = renderTargetStack
           /\ renderTarget' = renderTarget
           /\ rootRenderTarget' = rootRenderTarget
           /\ last'.ok => CopyRecorded']_vars

\* C16 happens: a copy from a window-backed target while another target is bound
C16_Witness ==
    /\ last.op = "copyToTexture"
    /\ last.ok
    /\ last.copy.from[1] = "swapchain"
    /\ renderTarget # Undefined
    /\ renderTarget # last.surface
    /\ Len(renderTargetStack) >= 2

\* C17: in the pass of every call that bound a target, the base view of color
\* attachment i is the view of the current texture of the context stored for i
\* when the attachment is window-backed, the view of the attachment's own
\* texture otherwise; with an msaa texture at i the view is the msaa texture's
\* and the resolve target is the base view; without one the view is the base
\* view and there is no resolve target.
C17_ViewSelection ==
    (last.op \in Binders /\ last.ok) =>
        \A i \in DOMAIN last.pass.descriptor.colorAttachments :
            /\ i \in DOMAIN gpuRenderTargetHash[last.pass.target].msaaTextures =>
                   /\ last.pass.descriptor.colorAttachments[i].view
                          = <<"msaa", colorTextures(last.pass.target)[i]>>
                   /\ last.pass.descriptor.colorAttachments[i].resolveTarget
                          = IF resource(colorTextures(last.pass.target)[i]) \in Canvases
                            THEN <<"swapchain",
                                   gpuRenderTargetHash[last.pass.target].contexts[i]>>
                            ELSE <<"texture", colorTextures(last.pass.target)[i]>>
            /\ i \notin DOMAIN gpuRenderTargetHash[last.pass.target].msaaTextures =>
                   /\ last.pass.descriptor.colorAttachments[i].view
                          = IF resource(colorTextures(last.pass.target)[i]) \in Canvases
                            THEN <<"swapchain",
                                   gpuRenderTargetHash[last.pass.target].contexts[i]>>
                            ELSE <<"texture", colorTextures(last.pass.target)[i]>>
                   /\ last.pass.descriptor.colorAttachments[i].resolveTarget = NoView

\* C17 happens: a pass over a window-backed attachment without an msaa texture
\* and a window-backed attachment with one
C17_Witness ==
    /\ last.op \in Binders
    /\ last.ok
    /\ Len(last.pass.descriptor.colorAttachments) = 2
    /\ last.pass.descriptor.colorAttachments[1].view[1] = "swapchain"
    /\ last.pass.descriptor.colorAttachments[1].resolveTarget = NoView
    /\ last.pass.descriptor.colorAttachments[2].view[1] = "msaa"
    /\ last.pass.descriptor.colorAttachments[2].resolveTarget[1] = "swapchain"

\* C18: the pass of every call that bound a target has a depth/stencil
\* attachment exactly when the target has a depth texture; its store operation
\* is "store" and its load operation is "clear" when the call asked to clear,
\* "load" otherwise; a pop or a restart never clears it.
C18_DepthStencilMirrorsClear ==
    (last.op \in Binders /\ last.ok) =>
        /\ last.pass.descriptor.depthStencilAttachment.present
               <=> depthTexture(last.pass.target) # NoTexture
        /\ last.pass.descriptor.depthStencilAttachment.present =>
               /\ last.pass.descriptor.depthStencilAttachment.view
                      = <<"depth", depthTexture(last.pass.target)>>
               /\ last.pass.descriptor.depthStencilAttachment.stencilStoreOp = "store"
               /\ last.pass.descriptor.depthStencilAttachment.stencilLoadOp
                      = IF last.clear THEN "clear" ELSE "load"
               /\ last.op \in {"pop", "restart"} =>
                      last.pass.descriptor.depthStencilAttachment.stencilLoadOp = "load"

\* C18 happens: a pop from a stack of three resumes a target with a depth texture
C18_Witness ==
    /\ last.op = "pop"
    /\ last.ok
    /\ last.pass.descriptor.depthStencilAttachment.present
    /\ last.pass.descriptor.depthStencilAttachment.stencilLoadOp = "load"
    /\ Len(last.before) = 3

\* C19: after a start, as long as only push and pop were called since (no bind,
\* no restart, no pop of a stack of one element), the current render target is
\* the top of the stack and the stack holds 1 plus the pushes minus the pops.
C19_CurrentTracksTop ==
    last.nested >= 1 =>
        /\ Len(renderTargetStack) = last.nested
        /\ renderTarget = stackTop(renderTargetStack)

\* C20: a pop of a stack of one element removes it, leaves the stack empty and
\* throws: no pass begins, nothing is emitted, the current render target stays
\* what it was (the root, when only pushes and pops followed the start), and the
\* element removed is not put back.
C20_PopUnguarded ==
    [][(last'.op = "pop" /\ Len(renderTargetStack) = 1) =>
           /\ ~last'.ok
           /\ renderTargetStack' = <<>>
           /\ ~last'.pass.begun
           /\ last'.trace = <<>>
           /\ emitted' = emitted
           /\ multisampleCount' = multisampleCount
           /\ renderTarget' = renderTarget
           /\ rootRenderTarget' = rootRenderTarget
           /\ last.nested = 1 => renderTarget' = rootRenderTarget']_vars

\* C20 happens: right after start the root is popped
C20_Witness ==
    /\ last.op = "pop"
    /\ ~last.ok
    /\ Len(last.before) = 1
    /\ last.before[1] = rootRenderTarget
    /\ renderTargetStack = <<>>
    /\ renderTarget = rootRenderTarget
    /\ emitted = rootRenderTarget

\* C21: no call, start and destroy included, removes or replaces an entry of
\* either cache: a surface stays mapped to the same RenderTarget, and a
\* RenderTarget keeps the GpuRenderTarget made for it (no second one is ever
\* made), with its contexts, its sample count and an msaa texture at every index
\* that had one.
C21_CachesOnlyGrow ==
    [][/\ \A s \in DOMAIN renderSurfaceToRenderTargetHash :
              /\ s \in DOMAIN renderSurfaceToRenderTargetHash'
              /\ renderSurfaceToRenderTargetHash'[s] = renderSurfaceToRenderTargetHash[s]
       /\ \A rt \in DOMAIN gpuRenderTargetHash :
              /\ rt \in DOMAIN gpuRenderTargetHash'
              /\ counts'.init[rt] = counts.init[rt]
              /\ gpuRenderTargetHash'[rt].contexts = gpuRenderTargetHash[rt].contexts
              /\ gpuRenderTargetHash'[rt].msaaSamples = gpuRenderTargetHash[rt].msaaSamples
              /\ DOMAIN gpuRenderTargetHash'[rt].msaaTextures
                     = DOMAIN gpuRenderTargetHash[rt].msaaTextures]_vars

\* C21 happens: a start resets a stack of three while both caches hold two
\* entries, one of them a target with an msaa texture that is not the new root
C21_Witness ==
    /\ last.op = "start"
    /\ last.ok
    /\ Len(last.before) = 3
    /\ renderTargetStack = <<rootRenderTarget>>
    /\ Cardinality(DOMAIN renderSurfaceToRenderTargetHash) >= 2
    /\ \E rt \in DOMAIN gpuRenderTargetHash :
           /\ rt # rootRenderTarget
           /\ gpuRenderTargetHash[rt].msaaTextures # <<>>
====
